---- MODULE Spec2Model ----
(***************************************************************************)
(* goSpider: the bounded worker pool ParallelRequests of goSpider.go.      *)
(*                                                                         *)
(* One ParallelRequests call is modelled goroutine by goroutine: the       *)
(* feeder started by streamInputs, the numberOfWorkers worker goroutines,  *)
(* the goroutine that waits on the WaitGroup and closes resultCh, and the  *)
(* calling goroutine that starts them and then ranges over resultCh.       *)
(* inputCh is unbuffered (a send and a receive are one step), resultCh is  *)
(* buffered with capacity len(requests).                                   *)
(*                                                                         *)
(* EvaluateParallelRequests is modelled on top of it (EvalSpec): its loop  *)
(* of evaluate calls and re-crawl passes, each pass a ParallelRequests     *)
(* call taken at the granularity of its crawl calls.                       *)
(* LoopSpec runs the same loop over one initial result with every pass     *)
(* run by the goroutines of its ParallelRequests call.                     *)
(*                                                                         *)
(* SliceSpec models RemovePageSource and RemoveRequest on a backing array  *)
(* with Go's slice headers; NavSpec models the retry loop of               *)
(* Navigator.OpenURL step by step.                                         *)
(***************************************************************************)
EXTENDS Integers, Sequences, FiniteSets, Bags, TLC

\* ------------------------------------------------------------------ bounds
\* Longest request list and largest worker count of Spec (worker counts
\* range over -1 .. MaxW: a count below 1 starts no worker).
MaxN == 2
MaxW == 2
\* Longest request list of SerialSpec, whose worker count is at most 1.
MaxSerialN == 3
\* Largest throttle delay, in clock ticks.
MaxDelay == 1
\* EvalSpec: longest working set of EvaluateParallelRequests (the initial
\* results, and valid plus needsRecrawl of every evaluate call).
MaxResults == 2
\* EvalSpec: the value at which the counters of evaluate calls and of
\* re-crawl passes stop counting.
MaxCount == 3
\* SliceSpec: longest backing array of the slice given to RemovePageSource
\* and RemoveRequest.
MaxLen == 3
\* NavSpec: longest page title, in words and blanks.
MaxTitle == 2

\* ------------------------------------------------------------------- state
VARIABLES
    requests,            \* the requests argument: a sequence of Request
    numberOfWorkers,     \* the numberOfWorkers argument
    delay,               \* the delay argument, in clock ticks
    failing,             \* the crawlerFunc argument: the calls (by position
                         \* of the request in the list) that return an error
    hanging,             \* the crawlerFunc argument: the calls that never
                         \* return
    done,                \* TRUE once the done channel is closed
    feederPc,            \* streamInputs' goroutine: "loop" or "exited"
    feederIdx,           \* index of the request the feeder offers next
    inputChClosed,       \* TRUE once inputCh is closed
    worker,              \* worker goroutines, by workerID
    wg,                  \* the WaitGroup counter
    closerPc,            \* the closing goroutine: "none", "wait", "exited"
    resultCh,            \* contents of the buffered result channel
    resultChClosed,      \* TRUE once resultCh is closed
    mainPc,              \* the caller: "spawn", "collect", "returned"
    spawned,             \* the loop variable i of the worker-starting loop
    results,             \* the results slice of the collector
    errorOnApiRequests,  \* the error variable of the collector
    now,                 \* the clock
    calls,               \* history: crawlerFunc invocations per position
    sleeps,              \* history: completed time.Sleep calls
    closes,              \* history: close() calls per channel
    \* EvaluateParallelRequests
    evalPc,              \* "none", "evaluate", "dispatch", "returned"
    evaluate,            \* the evaluate argument: "free", "once", "stuck"
    reliable,            \* the crawlerFunc argument: TRUE when no call of
                         \* it returns an error
    previousResults,     \* the working set
    newResults,          \* the valid list of the last evaluate call
    marks,               \* the verdicts of the last evaluate call, one per
                         \* result of the working set it was given
    seen,                \* memory of the "once" evaluate function: the
                         \* identifiers it was shown in earlier calls
    retResults,          \* the returned result collection
    retErr,              \* the returned error
    initial,             \* history: the previousResults argument
    evals,               \* history: evaluate calls (up to MaxCount)
    dispatches,          \* history: re-crawl passes (up to MaxCount)
    partition,           \* history: every evaluate call so far put each
                         \* result in exactly one of valid and needsRecrawl
    \* RemovePageSource, RemoveRequest
    heap,                \* the backing arrays in memory
    slice,               \* the slice argument, as the caller holds it
    index,               \* the s argument
    callee,              \* the function called
    removePc,            \* "none", "call", "returned", "panicked"
    removed,             \* the returned slice
    original,            \* history: the elements of slice at the call
    \* Navigator.OpenURL
    url,                 \* the url argument
    attempt,             \* the loop variable attempt
    navPc,               \* "none", "navigate", "wait", "title", "sleep",
                         \* "returned"
    openErr,             \* the returned error
    titles,              \* history: the titles CheckPageTitle has read
    opens,               \* history: navigations started by OpenURL itself
    naps                 \* history: completed time.Sleep calls

vars == <<requests, numberOfWorkers, delay, failing, done, feederPc, feederIdx,
          inputChClosed, worker, wg, closerPc, resultCh, resultChClosed,
          mainPc, spawned, results, errorOnApiRequests, now, calls, sleeps,
          hanging, closes, evalPc, evaluate, reliable, previousResults, newResults,
          marks, seen, retResults, retErr, initial, evals,
          dispatches, partition, heap, slice, index, callee, removePc, removed,
          original, url, attempt, navPc, openErr, titles, opens, naps>>

\* ----------------------------------------------------------------- values
\* Go's nil, for a *html.Node and for an error.
Nil == 0

\* The identifiers a Request may carry.
SearchStrings == {"a", "b"}

\* type Request struct { SearchString string }
Request(s) == [SearchString |-> s]

\* type PageSource struct { Page; Request; Error }
PageSource(page, request, err) == [Page |-> page, Request |-> request, Error |-> err]

N == Len(requests)

\* ParallelRequests(problematicPageSources, 10, 0, crawlerFunc)
RecrawlWorkers == 10
RecrawlDelay == 0

\* The workerID values of the goroutines of the call: 0 .. numberOfWorkers-1.
WorkerIDs == DOMAIN worker

\* The channels of a ParallelRequests call.
Channels == {"done", "inputCh", "resultCh"}

Range(s) == {s[i] : i \in DOMAIN s}

\* A worker goroutine that holds nothing: pc is one of
\* "unborn", "recv", "sleep", "crawl", "send", "exited".
Idle(pc) == [pc |-> pc, req |-> Request(""), pos |-> 0, wake |-> 0,
             page |-> Nil, err |-> Nil]

\* crawlerFunc(req.SearchString), for the call made for position pos of the
\* list: the page and the error it returns. A successful call returns a page
\* (identified by the call), a failing call returns nil and its own error.
crawlerFunc(pos, searchString) ==
    IF pos \in failing
    THEN [page |-> Nil, err |-> pos]
    ELSE [page |-> pos, err |-> Nil]

\* The error EvaluateParallelRequests returns: nil, or fmt.Errorf("failed to
\* crawl page sources, error: %s", err).
NilError == [text |-> "", cause |-> Nil]
Errorf(err) == [text |-> "failed to crawl page sources, error: ", cause |-> err]

\* All sequences over S of length at most n.
SeqUpTo(S, n) == UNION {[1..k -> S] : k \in 0..n}

\* ------------------------------------------------------------------- Init
sliceVars == <<heap, slice, index, callee, removePc, removed, original>>
navVars == <<url, attempt, navPc, openErr, titles, opens, naps>>

\* No RemovePageSource or RemoveRequest call is running.
NoRemove ==
    /\ heap = <<>>
    /\ slice = Nil
    /\ index = 0
    /\ callee = "none"
    /\ removePc = "none"
    /\ removed = Nil
    /\ original = <<>>

\* No OpenURL call is running.
NoOpenURL ==
    /\ url = ""
    /\ attempt = 0
    /\ navPc = "none"
    /\ openErr = NilError
    /\ titles = <<>>
    /\ opens = 0
    /\ naps = 0

\* The state of a ParallelRequests(requests, numberOfWorkers, delay,
\* crawlerFunc) call once done, inputCh (with its feeder) and resultCh exist.
Call(ids, maxN, maxW) ==
    /\ requests \in SeqUpTo({Request(s) : s \in ids}, maxN)
    /\ numberOfWorkers \in (-1) .. maxW
    /\ delay \in 0 .. MaxDelay
    /\ failing \in SUBSET (1 .. Len(requests))
    /\ NoRemove
    /\ NoOpenURL
    /\ done = FALSE
    /\ feederPc = "loop"
    /\ feederIdx = 1
    /\ inputChClosed = FALSE
    /\ worker = [w \in 0 .. (numberOfWorkers - 1) |-> Idle("unborn")]
    /\ wg = 0
    /\ closerPc = "none"
    /\ resultCh = <<>>
    /\ resultChClosed = FALSE
    /\ mainPc = "spawn"
    /\ spawned = 0
    /\ results = <<>>
    /\ errorOnApiRequests = Nil
    /\ now = 0
    /\ calls = [i \in 1 .. Len(requests) |-> 0]
    /\ sleeps = 0
    /\ closes = [c \in Channels |-> 0]

\* Every crawl call returns.
AllReturn == hanging = {}

\* No EvaluateParallelRequests call is running.
NoEvaluation ==
    /\ evalPc = "none"
    /\ evaluate = "free"
    /\ reliable = FALSE
    /\ previousResults = <<>>
    /\ newResults = <<>>
    /\ marks = <<>>
    /\ seen = {}
    /\ retResults = <<>>
    /\ retErr = NilError
    /\ initial = <<>>
    /\ evals = 0
    /\ dispatches = 0
    /\ partition = TRUE

Init == Call(SearchStrings, MaxN, MaxW) /\ AllReturn /\ NoEvaluation

\* Calls with at most one worker, over longer request lists.
SerialInit == Call(SearchStrings, MaxSerialN, 1) /\ AllReturn /\ NoEvaluation

\* Calls whose requests all carry the same identifier (no step of the call
\* reads an identifier, so the schedules are those of Init).
FairInit == Call({"a"}, MaxN, MaxW) /\ AllReturn /\ NoEvaluation

\* Calls in which at most one crawl call never returns and the others
\* return without error.
HangInit ==
    /\ Call({"a"}, MaxN, MaxW)
    /\ failing = {}
    /\ hanging \in {h \in SUBSET (1 .. Len(requests)) : Cardinality(h) <= 1}
    /\ NoEvaluation

args == <<requests, numberOfWorkers, delay, failing, hanging>>
feederVars == <<feederPc, feederIdx, inputChClosed>>
collectorVars == <<results, errorOnApiRequests>>
history == <<calls, sleeps, closes>>
loopVars == <<evalPc, evaluate, reliable, previousResults, newResults, marks, seen,
              retResults, retErr, initial, evals, dispatches,
              partition>>
\* What no step of a ParallelRequests call touches.
evalVars == <<loopVars, sliceVars, navVars>>

\* ----------------------------------------------------------------- caller
\* Variant of StartWorker: the loop starts one worker too many.
StartWorkerOneMore ==
    /\ mainPc = "spawn"
    /\ spawned < numberOfWorkers + 1
    /\ wg' = wg + 1
    /\ worker' = [w \in 0 .. spawned |->
                    IF w = spawned THEN Idle("recv") ELSE worker[w]]
    /\ spawned' = spawned + 1
    /\ UNCHANGED <<evalVars, args, done, feederVars, closerPc, resultCh, resultChClosed,
                   mainPc, collectorVars, now, history>>

\* for i := 0; i < numberOfWorkers; i++ { wg.Add(1); go func(workerID) ... }
StartWorker ==
    /\ mainPc = "spawn"
    /\ spawned < numberOfWorkers
    /\ wg' = wg + 1
    /\ worker' = [worker EXCEPT ![spawned] = Idle("recv")]
    /\ spawned' = spawned + 1
    /\ UNCHANGED <<evalVars, args, done, feederVars, closerPc, resultCh, resultChClosed,
                   mainPc, collectorVars, now, history>>

\* go func() { wg.Wait(); close(resultCh) }(), after the loop
StartCloser ==
    /\ mainPc = "spawn"
    /\ ~(spawned < numberOfWorkers)
    /\ closerPc' = "wait"
    /\ mainPc' = "collect"
    /\ UNCHANGED <<evalVars, args, done, feederVars, worker, wg, resultCh, resultChClosed,
                   spawned, collectorVars, now, history>>

\* Variant of CloseResults: resultCh is closed without wg.Wait().
CloseResultsNoWait ==
    /\ closerPc = "wait"
    /\ resultChClosed' = TRUE
    /\ closerPc' = "exited"
    /\ closes' = [closes EXCEPT !["resultCh"] = @ + 1]
    /\ UNCHANGED <<evalVars, args, done, feederVars, worker, wg, resultCh, mainPc,
                   spawned, collectorVars, now, calls, sleeps>>

\* wg.Wait() returns when the counter is zero; then close(resultCh)
CloseResults ==
    /\ closerPc = "wait"
    /\ wg = 0
    /\ resultChClosed' = TRUE
    /\ closerPc' = "exited"
    /\ closes' = [closes EXCEPT !["resultCh"] = @ + 1]
    /\ UNCHANGED <<evalVars, args, done, feederVars, worker, wg, resultCh, mainPc,
                   spawned, collectorVars, now, calls, sleeps>>

\* Variant of Collect: a failed result is noted and not appended.
CollectSkipsFailed ==
    /\ mainPc = "collect"
    /\ resultCh # <<>>
    /\ LET result == Head(resultCh) IN
       /\ errorOnApiRequests' =
             IF result.Error # Nil THEN result.Error ELSE errorOnApiRequests
       /\ results' = IF result.Error # Nil THEN results
                                            ELSE Append(results, result)
    /\ resultCh' = Tail(resultCh)
    /\ UNCHANGED <<evalVars, args, done, feederVars, worker, wg, closerPc, resultChClosed,
                   mainPc, spawned, now, history>>

\* Variant of Collect: the first error is kept (if errorOnApiRequests == nil).
CollectKeepsFirst ==
    /\ mainPc = "collect"
    /\ resultCh # <<>>
    /\ LET result == Head(resultCh) IN
       /\ errorOnApiRequests' =
             IF result.Error # Nil /\ errorOnApiRequests = Nil
             THEN result.Error ELSE errorOnApiRequests
       /\ results' = Append(results, result)
    /\ resultCh' = Tail(resultCh)
    /\ UNCHANGED <<evalVars, args, done, feederVars, worker, wg, closerPc, resultChClosed,
                   mainPc, spawned, now, history>>

\* Variant of Collect: the loop is left (and the function returns) at the
\* first failed result.
CollectHaltsOnError ==
    /\ mainPc = "collect"
    /\ resultCh # <<>>
    /\ LET result == Head(resultCh) IN
       /\ errorOnApiRequests' =
             IF result.Error # Nil THEN result.Error ELSE errorOnApiRequests
       /\ results' = Append(results, result)
       /\ mainPc' = IF result.Error # Nil THEN "returned" ELSE mainPc
       /\ done' = (result.Error # Nil)
       /\ closes' = IF result.Error # Nil
                    THEN [closes EXCEPT !["done"] = @ + 1] ELSE closes
    /\ resultCh' = Tail(resultCh)
    /\ UNCHANGED <<evalVars, args, feederVars, worker, wg, closerPc, resultChClosed,
                   spawned, now, calls, sleeps>>

\* Variant of Collect: the result is put in front of the collection.
CollectPrepends ==
    /\ mainPc = "collect"
    /\ resultCh # <<>>
    /\ LET result == Head(resultCh) IN
       /\ errorOnApiRequests' =
             IF result.Error # Nil THEN result.Error ELSE errorOnApiRequests
       /\ results' = <<result>> \o results
    /\ resultCh' = Tail(resultCh)
    /\ UNCHANGED <<evalVars, args, done, feederVars, worker, wg, closerPc, resultChClosed,
                   mainPc, spawned, now, history>>

\* One iteration of  for result := range resultCh
Collect ==
    /\ mainPc = "collect"
    /\ resultCh # <<>>
    /\ LET result == Head(resultCh) IN
       /\ errorOnApiRequests' =
             IF result.Error # Nil THEN result.Error ELSE errorOnApiRequests
       /\ results' = Append(results, result)
    /\ resultCh' = Tail(resultCh)
    /\ UNCHANGED <<evalVars, args, done, feederVars, worker, wg, closerPc, resultChClosed,
                   mainPc, spawned, now, history>>

\* Variant of Return: done is not closed (no defer close(done)).
ReturnKeepsDone ==
    /\ mainPc = "collect"
    /\ resultCh = <<>>
    /\ resultChClosed
    /\ mainPc' = "returned"
    /\ UNCHANGED <<evalVars, args, done, feederVars, worker, wg, closerPc, resultCh,
                   resultChClosed, spawned, collectorVars, now, history>>

\* The range loop ends on the closed, drained channel; the function returns
\* results, errorOnApiRequests and the deferred close(done) runs.
Return ==
    /\ mainPc = "collect"
    /\ resultCh = <<>>
    /\ resultChClosed
    /\ mainPc' = "returned"
    /\ done' = TRUE
    /\ closes' = [closes EXCEPT !["done"] = @ + 1]
    /\ UNCHANGED <<evalVars, args, feederVars, worker, wg, closerPc, resultCh,
                   resultChClosed, spawned, collectorVars, now, calls, sleeps>>

\* ----------------------------------------------------------------- feeder
\* Variant of Handoff: a request is handed out only while no other worker
\* is busy with one.
HandoffWhenAllIdle(w) ==
    /\ feederPc = "loop"
    /\ feederIdx <= N
    /\ worker[w].pc = "recv"
    /\ \A v \in WorkerIDs : worker[v].pc \in {"unborn", "recv", "exited"}
    /\ worker' = [worker EXCEPT ![w] =
           [Idle("sleep") EXCEPT !.req = requests[feederIdx],
                                 !.pos = feederIdx,
                                 !.wake = now + delay]]
    /\ feederIdx' = feederIdx + 1
    /\ UNCHANGED <<evalVars, args, done, feederPc, inputChClosed, wg, closerPc, resultCh,
                   resultChClosed, mainPc, spawned, collectorVars, now, history>>

\* select { case inputCh <- req: ... }  met by  req := range inputCh  of
\* worker w: inputCh is unbuffered, so the send and the receive are one step.
\* The worker logs and enters time.Sleep(delay).
Handoff(w) ==
    /\ feederPc = "loop"
    /\ feederIdx <= N
    /\ worker[w].pc = "recv"
    /\ worker' = [worker EXCEPT ![w] =
           [Idle("sleep") EXCEPT !.req = requests[feederIdx],
                                 !.pos = feederIdx,
                                 !.wake = now + delay]]
    /\ feederIdx' = feederIdx + 1
    /\ UNCHANGED <<evalVars, args, done, feederPc, inputChClosed, wg, closerPc, resultCh,
                   resultChClosed, mainPc, spawned, collectorVars, now, history>>

\* Variant of FeederCancelled: the feeder returns without closing inputCh.
FeederCancelledNoClose ==
    /\ feederPc = "loop"
    /\ feederIdx <= N
    /\ done
    /\ feederPc' = "exited"
    /\ UNCHANGED <<evalVars, args, done, feederIdx, inputChClosed, worker, wg, closerPc,
                   resultCh, resultChClosed, mainPc, spawned, collectorVars, now,
                   history>>

\* select { case <-done: return }, with the deferred close(inputCh)
FeederCancelled ==
    /\ feederPc = "loop"
    /\ feederIdx <= N
    /\ done
    /\ feederPc' = "exited"
    /\ inputChClosed' = TRUE
    /\ closes' = [closes EXCEPT !["inputCh"] = @ + 1]
    /\ UNCHANGED <<evalVars, args, done, feederIdx, worker, wg, closerPc, resultCh,
                   resultChClosed, mainPc, spawned, collectorVars, now, calls, sleeps>>

\* Variant of FeederFinished: the loop stops one request short.
FeederFinishedEarly ==
    /\ feederPc = "loop"
    /\ feederIdx > N - 1
    /\ feederPc' = "exited"
    /\ inputChClosed' = TRUE
    /\ closes' = [closes EXCEPT !["inputCh"] = @ + 1]
    /\ UNCHANGED <<evalVars, args, done, feederIdx, worker, wg, closerPc, resultCh,
                   resultChClosed, mainPc, spawned, collectorVars, now, calls, sleeps>>

\* Variant of FeederFinished: inputCh is never closed.
FeederFinishedNoClose ==
    /\ feederPc = "loop"
    /\ feederIdx > N
    /\ feederPc' = "exited"
    /\ UNCHANGED <<evalVars, args, done, feederIdx, inputChClosed, worker, wg, closerPc,
                   resultCh, resultChClosed, mainPc, spawned, collectorVars,
                   now, history>>

\* The range over requests is exhausted: the deferred close(inputCh) runs.
FeederFinished ==
    /\ feederPc = "loop"
    /\ feederIdx > N
    /\ feederPc' = "exited"
    /\ inputChClosed' = TRUE
    /\ closes' = [closes EXCEPT !["inputCh"] = @ + 1]
    /\ UNCHANGED <<evalVars, args, done, feederIdx, worker, wg, closerPc, resultCh,
                   resultChClosed, mainPc, spawned, collectorVars, now, calls, sleeps>>

\* ---------------------------------------------------------------- workers
\* Variant of WorkerCrawl: the crawl starts without waiting for the delay.
WorkerCrawlNoDelay(w) ==
    /\ worker[w].pc = "sleep"
    /\ worker' = [worker EXCEPT ![w].pc = "crawl"]
    /\ calls' = [calls EXCEPT ![worker[w].pos] = @ + 1]
    /\ sleeps' = sleeps + 1
    /\ UNCHANGED <<evalVars, args, done, feederVars, wg, closerPc, resultCh,
                   resultChClosed, mainPc, spawned, collectorVars, now, closes>>

\* time.Sleep(delay) returns (not before delay has passed) and
\* crawlerFunc(req.SearchString) is invoked.
WorkerCrawl(w) ==
    /\ worker[w].pc = "sleep"
    /\ now >= worker[w].wake
    /\ worker' = [worker EXCEPT ![w].pc = "crawl"]
    /\ calls' = [calls EXCEPT ![worker[w].pos] = @ + 1]
    /\ sleeps' = sleeps + 1
    /\ UNCHANGED <<evalVars, args, done, feederVars, wg, closerPc, resultCh,
                   resultChClosed, mainPc, spawned, collectorVars, now, closes>>

\* Variant of CrawlReturns: a failed crawl is tried once more.
CrawlReturnsRetry(w) ==
    /\ worker[w].pc = "crawl"
    /\ worker[w].pos \notin hanging
    /\ LET r == crawlerFunc(worker[w].pos, worker[w].req.SearchString) IN
       IF r.err # Nil /\ calls[worker[w].pos] < 2
       THEN /\ calls' = [calls EXCEPT ![worker[w].pos] = @ + 1]
            /\ UNCHANGED <<worker, sleeps, closes>>
       ELSE /\ worker' = [worker EXCEPT ![w].pc = "send", ![w].page = r.page,
                                        ![w].err = r.err]
            /\ UNCHANGED history
    /\ UNCHANGED <<evalVars, args, done, feederVars, wg, closerPc, resultCh,
                   resultChClosed, mainPc, spawned, collectorVars, now>>

\* Variant of CrawlReturns: the error of the crawl is dropped.
CrawlReturnsDropsError(w) ==
    /\ worker[w].pc = "crawl"
    /\ worker[w].pos \notin hanging
    /\ LET r == crawlerFunc(worker[w].pos, worker[w].req.SearchString) IN
       worker' = [worker EXCEPT ![w].pc = "send", ![w].page = r.page]
    /\ UNCHANGED <<evalVars, args, done, feederVars, wg, closerPc, resultCh,
                   resultChClosed, mainPc, spawned, collectorVars, now, history>>

\* Variant of CrawlReturns: a call that would never return is given up
\* and yields an error.
CrawlReturnsTimesOut(w) ==
    /\ worker[w].pc = "crawl"
    /\ LET r == IF worker[w].pos \in hanging
                THEN [page |-> Nil, err |-> worker[w].pos]
                ELSE crawlerFunc(worker[w].pos, worker[w].req.SearchString) IN
       worker' = [worker EXCEPT ![w].pc = "send", ![w].page = r.page,
                                ![w].err = r.err]
    /\ UNCHANGED <<evalVars, args, done, feederVars, wg, closerPc, resultCh,
                   resultChClosed, mainPc, spawned, collectorVars, now, history>>

\* crawlerFunc returns pageSource, err (unless this call never returns)
CrawlReturns(w) ==
    /\ worker[w].pc = "crawl"
    /\ worker[w].pos \notin hanging
    /\ LET r == crawlerFunc(worker[w].pos, worker[w].req.SearchString) IN
       worker' = [worker EXCEPT ![w].pc = "send", ![w].page = r.page,
                                ![w].err = r.err]
    /\ UNCHANGED <<evalVars, args, done, feederVars, wg, closerPc, resultCh,
                   resultChClosed, mainPc, spawned, collectorVars, now, history>>

\* Variant of WorkerSend: after sending a failed result the worker returns.
WorkerSendStopsOnError(w) ==
    /\ worker[w].pc = "send"
    /\ Len(resultCh) < N
    /\ ~resultChClosed
    /\ resultCh' = Append(resultCh,
           PageSource(worker[w].page, worker[w].req.SearchString, worker[w].err))
    /\ worker' = [worker EXCEPT ![w] =
           Idle(IF worker[w].err # Nil THEN "exited" ELSE "recv")]
    /\ wg' = IF worker[w].err # Nil THEN wg - 1 ELSE wg
    /\ UNCHANGED <<evalVars, args, done, feederVars, closerPc, resultChClosed, mainPc,
                   spawned, collectorVars, now, history>>

\* Variant of WorkerSend: the buffer of resultCh is one slot short.
WorkerSendSmallBuffer(w) ==
    /\ worker[w].pc = "send"
    /\ Len(resultCh) < N - 1
    /\ ~resultChClosed
    /\ resultCh' = Append(resultCh,
           PageSource(worker[w].page, worker[w].req.SearchString, worker[w].err))
    /\ worker' = [worker EXCEPT ![w] = Idle("recv")]
    /\ UNCHANGED <<evalVars, args, done, feederVars, wg, closerPc, resultChClosed, mainPc,
                   spawned, collectorVars, now, history>>

\* Variant of WorkerSend: the identifier is read from a variable shared by
\* the workers, which holds the request handed out last.
WorkerSendSharedReq(w) ==
    /\ worker[w].pc = "send"
    /\ Len(resultCh) < N
    /\ ~resultChClosed
    /\ resultCh' = Append(resultCh,
           PageSource(worker[w].page, requests[feederIdx - 1].SearchString,
                      worker[w].err))
    /\ worker' = [worker EXCEPT ![w] = Idle("recv")]
    /\ UNCHANGED <<evalVars, args, done, feederVars, wg, closerPc, resultChClosed, mainPc,
                   spawned, collectorVars, now, history>>

\* resultCh <- PageSource{Page: pageSource, Request: req.SearchString,
\* Error: err}: completes when the buffer (capacity len(requests)) has room.
WorkerSend(w) ==
    /\ worker[w].pc = "send"
    /\ Len(resultCh) < N
    /\ ~resultChClosed
    /\ resultCh' = Append(resultCh,
           PageSource(worker[w].page, worker[w].req.SearchString, worker[w].err))
    /\ worker' = [worker EXCEPT ![w] = Idle("recv")]
    /\ UNCHANGED <<evalVars, args, done, feederVars, wg, closerPc, resultChClosed, mainPc,
                   spawned, collectorVars, now, history>>

\* range inputCh ends on the closed channel; the deferred wg.Done() runs.
WorkerExit(w) ==
    /\ worker[w].pc = "recv"
    /\ inputChClosed
    /\ worker' = [worker EXCEPT ![w] = Idle("exited")]
    /\ wg' = wg - 1
    /\ UNCHANGED <<evalVars, args, done, feederVars, closerPc, resultCh, resultChClosed,
                   mainPc, spawned, collectorVars, now, history>>

\* ------------------------------------------------------------------ clock
Sleeping(w) == worker[w].pc = "sleep" /\ worker[w].wake > now

\* Time passes while some worker is inside time.Sleep and its delay has not
\* yet elapsed. A tick that no sleeper waits for changes nothing but the
\* clock, so it is left out: now is the least time the call can have taken.
Tick ==
    /\ \E w \in WorkerIDs : Sleeping(w)
    /\ now' = now + 1
    /\ UNCHANGED <<evalVars, args, done, feederVars, worker, wg, closerPc, resultCh,
                   resultChClosed, mainPc, spawned, collectorVars, history>>

\* ------------------------------------------------------------------- Next
Next ==
    \/ StartWorker
    \/ StartCloser
    \/ CloseResults
    \/ Collect
    \/ Return
    \/ FeederCancelled
    \/ FeederFinished
    \/ Tick
    \/ \E w \in WorkerIDs : Handoff(w)
    \/ \E w \in WorkerIDs : WorkerCrawl(w)
    \/ \E w \in WorkerIDs : CrawlReturns(w)
    \/ \E w \in WorkerIDs : WorkerSend(w)
    \/ \E w \in WorkerIDs : WorkerExit(w)

Spec == Init /\ [][Next]_vars

SerialSpec == SerialInit /\ [][Next]_vars

\* The Go scheduler runs a goroutine that can take a step, the clock advances
\* and (the premise of the termination claim) a crawl call in progress
\* returns: some enabled step is eventually taken.
FairSpec == FairInit /\ [][Next]_vars /\ WF_vars(Next)

\* The same scheduling, with a crawl call that may never return.
HangSpec == HangInit /\ [][Next]_vars /\ WF_vars(Next)

\* ------------------------------------------- EvaluateParallelRequests
\* The Page of the initial results (those of an earlier crawl).
Old == -1

\* The previousResults argument.
InitialResults ==
    SeqUpTo({PageSource(Old, s, Nil) : s \in SearchStrings}, MaxResults)

\* What an evaluate call may do with one result: put it in valid, put its
\* request in needsRecrawl, both, or neither.
Verdicts == {"valid", "recrawl", "both", "drop"}

\* The identifier the "stuck" evaluate function never accepts.
StuckId == "a"

\* The verdicts the evaluate argument may give on working set ws: any
\* ("free"); invalid on the first appearance of an identifier and valid on
\* every later one ("once"); StuckId always invalid, the others valid
\* ("stuck").
Marks(ws) ==
    CASE evaluate = "free" -> [1 .. Len(ws) -> Verdicts]
      [] evaluate = "once" ->
            {[k \in 1 .. Len(ws) |->
                IF ws[k].Request \in seen THEN "valid" ELSE "recrawl"]}
      [] evaluate = "stuck" ->
            {[k \in 1 .. Len(ws) |->
                IF ws[k].Request = StuckId THEN "recrawl" ELSE "valid"]}

\* The results of ws[1 .. n] whose verdict is in want, in order.
RECURSIVE Pick(_, _, _, _)
Pick(ws, m, want, n) ==
    IF n = 0 THEN <<>>
    ELSE LET rest == Pick(ws, m, want, n - 1) IN
         IF m[n] \in want THEN Append(rest, ws[n]) ELSE rest

\* The two lists an evaluate call with verdicts m returns.
Valid(ws, m) == Pick(ws, m, {"valid", "both"}, Len(ws))
NeedsRecrawl(ws, m) ==
    LET bad == Pick(ws, m, {"recrawl", "both"}, Len(ws)) IN
    [k \in 1 .. Len(bad) |-> Request(bad[k].Request)]

\* A counter that stops at MaxCount.
Count(c) == IF c < MaxCount THEN c + 1 ELSE c

\* No ParallelRequests call is in progress and none has left a result.
Quiet ==
    /\ requests = <<>>
    /\ failing = {}
    /\ hanging = {}
    /\ done = FALSE
    /\ feederPc = "none"
    /\ feederIdx = 1
    /\ inputChClosed = FALSE
    /\ worker = <<>>
    /\ wg = 0
    /\ closerPc = "none"
    /\ resultCh = <<>>
    /\ resultChClosed = FALSE
    /\ mainPc = "none"
    /\ spawned = 0
    /\ results = <<>>
    /\ errorOnApiRequests = Nil
    /\ now = 0
    /\ calls = <<>>
    /\ sleeps = 0
    /\ closes = [c \in Channels |-> 0]

\* No ParallelRequests call has been made.
NoCall == Quiet /\ numberOfWorkers = 0 /\ delay = 0

\* The caller's initial dispatch was made with any worker count and delay.
AfterDispatch ==
    /\ Quiet
    /\ numberOfWorkers \in (-1) .. MaxW
    /\ delay \in 0 .. MaxDelay

\* Initial results over one identifier that carry a page or an error.
CarriedResults ==
    SeqUpTo({PageSource(Old, StuckId, Nil), PageSource(Nil, StuckId, Old)},
            MaxResults)

\* EvaluateParallelRequests(previousResults, crawlerFunc, evaluate) at its
\* first instruction, for previousResults in inputs.
EvalCall(inputs) ==
    /\ evalPc = "evaluate"
    /\ NoRemove
    /\ NoOpenURL
    /\ evaluate \in {"free", "once", "stuck"}
    /\ reliable \in BOOLEAN
    /\ previousResults \in inputs
    /\ initial = previousResults
    /\ newResults = <<>>
    /\ marks = <<>>
    /\ seen = {}
    /\ retResults = <<>>
    /\ retErr = NilError
    /\ evals = 0
    /\ dispatches = 0
    /\ partition = TRUE

EvalInit == NoCall /\ EvalCall(InitialResults)

\* The call over initial results that may carry an error.
CarriedInit == NoCall /\ EvalCall(CarriedResults)

\* The parts of a ParallelRequests call that a re-crawl pass, taken at the
\* granularity of its crawl calls, leaves out.
poolRest == <<hanging, done, feederVars, worker, wg, closerPc, resultCh,
              resultChClosed, spawned, now, sleeps, closes, sliceVars, navVars>>

\* Variant of PassWorkers: one worker per request of the pass.
PassWorkersBySize(needsRecrawl) == Len(needsRecrawl)

\* The numberOfWorkers argument of the ParallelRequests call of a pass.
PassWorkers(needsRecrawl) == RecrawlWorkers

\* ParallelRequests(problematicPageSources, 10, 0, crawlerFunc) is called,
\* the call being taken at the granularity of its crawl calls.
StartPass(reqs) ==
    /\ requests' = reqs
    /\ numberOfWorkers' = PassWorkers(reqs)
    /\ delay' = RecrawlDelay
    /\ failing' = {}
    /\ results' = <<>>
    /\ errorOnApiRequests' = Nil
    /\ calls' = [i \in 1 .. Len(reqs) |-> 0]
    /\ mainPc' = "collect"
    /\ UNCHANGED poolRest

\* ParallelRequests(problematicPageSources, 10, 0, crawlerFunc) is called,
\* with its goroutines and channels: the state of Call, for a crawl function
\* that fixes which of its calls return an error.
StartCall(reqs) ==
    /\ requests' = reqs
    /\ numberOfWorkers' = PassWorkers(reqs)
    /\ delay' = RecrawlDelay
    /\ failing' \in (IF reliable THEN {{}} ELSE SUBSET (1 .. Len(reqs)))
    /\ done' = FALSE
    /\ feederPc' = "loop"
    /\ feederIdx' = 1
    /\ inputChClosed' = FALSE
    /\ worker' = [w \in 0 .. (PassWorkers(reqs) - 1) |-> Idle("unborn")]
    /\ wg' = 0
    /\ closerPc' = "none"
    /\ resultCh' = <<>>
    /\ resultChClosed' = FALSE
    /\ mainPc' = "spawn"
    /\ spawned' = 0
    /\ results' = <<>>
    /\ errorOnApiRequests' = Nil
    /\ now' = 0
    /\ calls' = [i \in 1 .. Len(reqs) |-> 0]
    /\ sleeps' = 0
    /\ closes' = [c \in Channels |-> 0]
    /\ UNCHANGED <<hanging, sliceVars, navVars>>

\* Variant of LoopExit: the loop also ends after two evaluate calls.
LoopExitCapped(needsRecrawl) == Len(needsRecrawl) = 0 \/ evals >= 2

\* if len(problematicPageSources) == 0
LoopExit(needsRecrawl) == Len(needsRecrawl) = 0

\* Variant of Accepted: the working set is returned, not the valid list.
AcceptedUnfiltered(ws, valid) == ws

\* return newResults, nil
Accepted(ws, valid) == valid

\* Variant of Dispatched: every result of the working set is crawled again.
DispatchedAll(ws, needsRecrawl) == [k \in 1 .. Len(ws) |-> Request(ws[k].Request)]

\* The requests argument of the ParallelRequests call of a pass.
Dispatched(ws, needsRecrawl) == needsRecrawl

\* Variant of NextWorkingSet: the fresh results are appended to the old
\* working set (previousResults = newResults is missing).
NextWorkingSetStale(ws, valid, temporaryResults) == ws \o temporaryResults

\* Variant of NextWorkingSet: the fresh results come before the valid ones.
NextWorkingSetPrepends(ws, valid, temporaryResults) == temporaryResults \o valid

\* Variant of NextWorkingSet: only the fresh results are kept.
NextWorkingSetFresh(ws, valid, temporaryResults) == temporaryResults

\* previousResults = newResults, then every tempResult appended
NextWorkingSet(ws, valid, temporaryResults) == valid \o temporaryResults

\* problematicPageSources, newResults := evaluate(previousResults), for an
\* evaluate call that gives verdicts m.
Verdict(m) ==
    /\ Len(Valid(previousResults, m)) + Len(NeedsRecrawl(previousResults, m))
          <= MaxResults
    /\ marks' = m
    /\ newResults' = Valid(previousResults, m)
    /\ seen' = IF evaluate = "once"
               THEN seen \cup {previousResults[k].Request :
                                  k \in 1 .. Len(previousResults)}
               ELSE seen
    /\ evals' = Count(evals)
    /\ partition' = (partition /\ \A k \in DOMAIN m : m[k] \in {"valid", "recrawl"})
    /\ UNCHANGED <<evaluate, reliable, previousResults, initial>>

\* return newResults, nil
ReturnValid(m) ==
    /\ evalPc' = "returned"
    /\ retResults' = Accepted(previousResults, Valid(previousResults, m))
    /\ retErr' = NilError
    /\ UNCHANGED <<requests, numberOfWorkers, delay, failing, collectorVars,
                   calls, mainPc, dispatches, poolRest>>

\* The function goes on to the ParallelRequests call of a re-crawl pass.
Recrawl ==
    /\ evalPc' = "dispatch"
    /\ dispatches' = Count(dispatches)
    /\ UNCHANGED <<retResults, retErr>>

\* One iteration up to its return or to the ParallelRequests call, the call
\* being taken at the granularity of its crawl calls.
Evaluate ==
    /\ evalPc = "evaluate"
    /\ \E m \in Marks(previousResults) :
          /\ Verdict(m)
          /\ IF LoopExit(NeedsRecrawl(previousResults, m))
             THEN ReturnValid(m)
             ELSE /\ Recrawl
                  /\ StartPass(Dispatched(previousResults,
                                          NeedsRecrawl(previousResults, m)))

\* One iteration up to its return or to the ParallelRequests call, the call
\* being run by its goroutines.
EvaluateCall ==
    /\ evalPc = "evaluate"
    /\ \E m \in Marks(previousResults) :
          /\ Verdict(m)
          /\ IF LoopExit(NeedsRecrawl(previousResults, m))
             THEN ReturnValid(m)
             ELSE /\ Recrawl
                  /\ StartCall(Dispatched(previousResults,
                                          NeedsRecrawl(previousResults, m)))

\* One request of the pass: a worker of the ParallelRequests call receives
\* the request at position i and calls crawlerFunc for it (the crawl function
\* fixes whether this call returns an error), the result is sent, and the
\* collector appends it and keeps the error of the last failed result; after
\* the last request the call returns.
Crawl(i) ==
    /\ evalPc = "dispatch"
    /\ mainPc = "collect"
    /\ i \in 1 .. N
    /\ calls[i] = 0
    /\ calls' = [calls EXCEPT ![i] = @ + 1]
    /\ failing' \in (IF reliable THEN {failing} ELSE {failing, failing \cup {i}})
    /\ LET r == IF i \in failing' THEN [page |-> Nil, err |-> i]
                                   ELSE [page |-> i, err |-> Nil]
           result == PageSource(r.page, requests[i].SearchString, r.err)
       IN /\ results' = Append(results, result)
          /\ errorOnApiRequests' =
                IF result.Error # Nil THEN result.Error ELSE errorOnApiRequests
    /\ mainPc' = IF \A j \in 1 .. N : calls'[j] >= 1 THEN "returned" ELSE mainPc
    /\ UNCHANGED <<poolRest, requests, numberOfWorkers, delay, evalPc,
                   evaluate, reliable, previousResults, newResults, marks,
                   seen, retResults, retErr, initial, evals, dispatches,
                   partition>>

\* Variant of PassReturned: the loop goes on as soon as every result of the
\* pass is collected.
PassCollected ==
    /\ evalPc = "dispatch"
    /\ mainPc \in {"collect", "returned"}
    /\ Len(results) = N

\* The ParallelRequests call of the pass has returned temporaryResults, err.
PassReturned ==
    /\ evalPc = "dispatch"
    /\ mainPc = "returned"

\* Variant of RecrawlFailed: the error is returned with the valid results.
RecrawlFailedKeepsValid ==
    /\ PassReturned
    /\ errorOnApiRequests # Nil
    /\ evalPc' = "returned"
    /\ retResults' = newResults
    /\ retErr' = Errorf(errorOnApiRequests)
    /\ UNCHANGED <<poolRest, mainPc, args, collectorVars, calls, evaluate, reliable,
                   previousResults, newResults, marks, seen, initial,
                   evals, dispatches, partition>>

\* if err != nil { return nil, fmt.Errorf(...) }
RecrawlFailed ==
    /\ PassReturned
    /\ errorOnApiRequests # Nil
    /\ evalPc' = "returned"
    /\ retResults' = <<>>
    /\ retErr' = Errorf(errorOnApiRequests)
    /\ UNCHANGED <<poolRest, mainPc, args, collectorVars, calls, evaluate, reliable,
                   previousResults, newResults, marks, seen, initial,
                   evals, dispatches, partition>>

\* Variant of RecrawlSucceeded: the loop goes on whatever err is.
RecrawlIgnoresError ==
    /\ PassReturned
    /\ previousResults' = NextWorkingSet(previousResults, newResults, results)
    /\ evalPc' = "evaluate"
    /\ UNCHANGED <<poolRest, mainPc, args, collectorVars, calls, evaluate, reliable,
                   newResults, marks, seen, retResults, retErr,
                   initial, evals, dispatches, partition>>

\* err == nil: the new working set, and back to the head of the loop.
RecrawlSucceeded ==
    /\ PassReturned
    /\ errorOnApiRequests = Nil
    /\ previousResults' = NextWorkingSet(previousResults, newResults, results)
    /\ evalPc' = "evaluate"
    /\ UNCHANGED <<poolRest, mainPc, args, collectorVars, calls, evaluate, reliable,
                   newResults, marks, seen, retResults, retErr,
                   initial, evals, dispatches, partition>>

EvalNext ==
    \/ Evaluate
    \/ \E i \in 1 .. MaxResults : Crawl(i)
    \/ RecrawlFailed
    \/ RecrawlSucceeded

EvalSpec == EvalInit /\ [][EvalNext]_vars

\* The same loop over initial results that may carry an error.
CarriedSpec == CarriedInit /\ [][EvalNext]_vars

\* The call over one initial result with one of the two deterministic
\* evaluate functions, after an initial dispatch with any worker count and
\* delay.
LoopInit ==
    /\ AfterDispatch
    /\ EvalCall({q \in InitialResults : Len(q) = 1})
    /\ evaluate \in {"once", "stuck"}

\* The loop with every ParallelRequests call run by its goroutines: the
\* feeder, ten workers, the closing goroutine and the collector. With ten
\* workers and no delay the feeder never takes its done branch and no
\* worker waits for the clock.
LoopNext ==
    \/ EvaluateCall
    \/ RecrawlFailed
    \/ RecrawlSucceeded
    \/ StartWorker
    \/ StartCloser
    \/ CloseResults
    \/ Collect
    \/ Return
    \/ FeederFinished
    \/ \E w \in WorkerIDs : Handoff(w)
    \/ \E w \in WorkerIDs : WorkerCrawl(w)
    \/ \E w \in WorkerIDs : CrawlReturns(w)
    \/ \E w \in WorkerIDs : WorkerSend(w)
    \/ \E w \in WorkerIDs : WorkerExit(w)

LoopSpec == LoopInit /\ [][LoopNext]_vars

\* The call with one of the two deterministic evaluate functions.
FairEvalInit == EvalInit /\ evaluate \in {"once", "stuck"}

\* An evaluate call returns, a worker of the pass takes a waiting request
\* and its crawl call returns: some enabled step is eventually taken.
FairEvalSpec == FairEvalInit /\ [][EvalNext]_vars /\ WF_vars(EvalNext)

\* ------------------------------------------ RemovePageSource, RemoveRequest
\* A slice is a view of len cells, starting ptr cells into a backing array,
\* that may grow up to cap cells without moving.
Slice(array, ptr, len, cap) == [array |-> array, ptr |-> ptr, len |-> len, cap |-> cap]

\* x[0], ..., x[len(x)-1] as memory h holds them
Elements(h, x) == [k \in 1 .. x.len |-> h[x.array][x.ptr + k]]

\* x[:hi]
SliceTo(x, hi) == Slice(x.array, x.ptr, hi, x.cap)

\* x[lo:]
SliceFrom(x, lo) == Slice(x.array, x.ptr + lo, x.len - lo, x.cap - lo)

\* The bounds checks of x[:i] and of x[i+1:]: a failed one panics.
Panics(x, i) == ~(0 <= i /\ i <= x.cap /\ 0 <= i + 1 /\ i + 1 <= x.len)

\* append(x, ys...): the memory and the slice it leaves. With room in the
\* backing array of x the elements are written after the last one of x;
\* without room they go with those of x to a new array (whose capacity is
\* taken to be its length).
append(h, x, ys) ==
    IF x.len + Len(ys) <= x.cap
    THEN [heap |-> [h EXCEPT ![x.array] =
                       [c \in DOMAIN h[x.array] |->
                           IF x.ptr + x.len < c /\ c <= x.ptr + x.len + Len(ys)
                           THEN ys[c - (x.ptr + x.len)]
                           ELSE h[x.array][c]]],
          slice |-> Slice(x.array, x.ptr, x.len + Len(ys), x.cap)]
    ELSE [heap |-> Append(h, Elements(h, x) \o ys),
          slice |-> Slice(Len(h) + 1, 0, x.len + Len(ys), x.len + Len(ys))]

\* Variant of Remove: the elements are appended to a copy of slice[:i].
RemoveFromCopy(h, x, i) ==
    append(append(h, Slice(x.array, x.ptr, 0, 0), Elements(h, SliceTo(x, i))).heap,
           append(h, Slice(x.array, x.ptr, 0, 0), Elements(h, SliceTo(x, i))).slice,
           Elements(h, SliceFrom(x, i + 1)))

\* Variant of Remove: the appended elements start at index i + 2.
RemoveSkipsTwo(h, x, i) ==
    append(h, SliceTo(x, i),
           Elements(h, SliceFrom(x, IF i + 2 <= x.len THEN i + 2 ELSE i + 1)))

\* append(slice[:s], slice[s+1:]...)
Remove(h, x, i) == append(h, SliceTo(x, i), Elements(h, SliceFrom(x, i + 1)))

PageSources == {PageSource("page", "a", Nil), PageSource(Nil, "b", "error")}
Requests == {Request(id) : id \in SearchStrings}

\* A call of one of the two functions: a slice anywhere in a backing array
\* of up to MaxLen cells, and an index (in range or not).
RemoveCall ==
    /\ callee \in {"RemovePageSource", "RemoveRequest"}
    /\ removePc = "call"
    /\ \E array \in SeqUpTo(IF callee = "RemoveRequest" THEN Requests ELSE PageSources,
                            MaxLen) :
          /\ heap = <<array>>
          /\ \E ptr \in 0 .. Len(array) :
                \E len \in 0 .. (Len(array) - ptr) :
                   slice = Slice(1, ptr, len, Len(array) - ptr)
    /\ index \in (-1) .. slice.len
    /\ original = Elements(heap, slice)
    /\ removed = Nil

callVars == <<args, done, feederVars, worker, wg, closerPc, resultCh, resultChClosed,
              mainPc, spawned, collectorVars, now, history>>

\* The body of both functions: return append(slice[:s], slice[s+1:]...)
RemoveReturns ==
    /\ removePc = "call"
    /\ IF Panics(slice, index)
       THEN /\ removePc' = "panicked"
            /\ UNCHANGED <<heap, removed>>
       ELSE /\ removePc' = "returned"
            /\ heap' = Remove(heap, slice, index).heap
            /\ removed' = Remove(heap, slice, index).slice
    /\ UNCHANGED <<slice, index, callee, original, callVars, loopVars, navVars>>

RemovePageSource == callee = "RemovePageSource" /\ RemoveReturns

RemoveRequest == callee = "RemoveRequest" /\ RemoveReturns

SliceInit == NoCall /\ NoEvaluation /\ NoOpenURL /\ RemoveCall

SliceNext == RemovePageSource \/ RemoveRequest

SliceSpec == SliceInit /\ [][SliceNext]_vars

\* ------------------------------------------------------ Navigator.OpenURL
\* const maxRetries = 3
maxRetries == 3

\* A page title is a sequence of words and blanks.
Blank == " "
Words == {Blank, "Ah, não!", "x"}
Titles == SeqUpTo(Words, MaxTitle)
URLs == {"u", "v"}

\* strings.TrimSpace: the title without its leading and trailing blanks
RECURSIVE TrimSpace(_)
TrimSpace(t) ==
    IF t = <<>> THEN t
    ELSE IF Head(t) = Blank THEN TrimSpace(Tail(t))
    ELSE IF t[Len(t)] = Blank THEN TrimSpace(SubSeq(t, 1, Len(t) - 1))
    ELSE t

\* CheckPageTitle's verdict on the title it has read
CheckPageTitle(t) == TrimSpace(t) = <<"Ah, não!">>

\* The errors of chromedp.Run and of WaitPageLoad
RunError == [text |-> "chromedp", cause |-> Nil]
WaitErrors ==
    {[text |-> "error - timeout waiting for page to fully load", cause |-> Nil],
     [text |-> "error - failed to check page readiness: ", cause |-> RunError]}

\* fmt.Errorf(text, cause)
Wrap(text, cause) == [text |-> text, cause |-> cause]

\* A call of OpenURL, at the first test of the loop condition.
OpenURLCall ==
    /\ url \in URLs
    /\ attempt = 1
    /\ navPc = "navigate"
    /\ openErr = NilError
    /\ titles = <<>>
    /\ opens = 0
    /\ naps = 0

navRest == <<callVars, loopVars, sliceVars, url>>

\* chromedp.Run(nav.Ctx, chromedp.Navigate(url), chromedp.WaitReady("body"))
\* and the return on its error
OpenNavigate ==
    /\ navPc = "navigate"
    /\ opens' = opens + 1
    /\ \/ /\ navPc' = "wait"
          /\ UNCHANGED openErr
       \/ /\ navPc' = "returned"
          /\ openErr' = Wrap("error - failed to open URL: ", RunError)
    /\ UNCHANGED <<attempt, titles, naps, navRest>>

\* _, err = nav.WaitPageLoad() and the return on its error
OpenWait ==
    /\ navPc = "wait"
    /\ \/ /\ navPc' = "title"
          /\ UNCHANGED openErr
       \/ /\ navPc' = "returned"
          /\ openErr' \in WaitErrors
    /\ UNCHANGED <<attempt, titles, opens, naps, navRest>>

\* isError, err := nav.CheckPageTitle(url), the return on its error and the
\* return of nil on a title that does not show the error
OpenTitle ==
    /\ navPc = "title"
    /\ \/ /\ navPc' = "returned"
          /\ openErr' = Wrap("error checking page title: ",
                             Wrap("failed to navigate or get title: ", RunError))
          /\ UNCHANGED titles
       \/ \E t \in Titles :
             /\ titles' = Append(titles, t)
             /\ IF CheckPageTitle(t)
                THEN navPc' = "sleep" /\ UNCHANGED openErr
                ELSE navPc' = "returned" /\ openErr' = NilError
    /\ UNCHANGED <<attempt, opens, naps, navRest>>

\* Variant of OpenRetry: the loop runs while attempt < maxRetries.
OpenRetryOneLess ==
    /\ navPc = "sleep"
    /\ naps' = naps + 1
    /\ attempt' = attempt + 1
    /\ IF attempt' < maxRetries
       THEN navPc' = "navigate" /\ UNCHANGED openErr
       ELSE /\ navPc' = "returned"
            /\ openErr' = Wrap("failed to open URL %s after %d attempts",
                               <<url, maxRetries>>)
    /\ UNCHANGED <<titles, opens, navRest>>

\* time.Sleep(500 * time.Millisecond), attempt++, the loop condition and
\* the return after the loop
OpenRetry ==
    /\ navPc = "sleep"
    /\ naps' = naps + 1
    /\ attempt' = attempt + 1
    /\ IF attempt' <= maxRetries
       THEN navPc' = "navigate" /\ UNCHANGED openErr
       ELSE /\ navPc' = "returned"
            /\ openErr' = Wrap("failed to open URL %s after %d attempts",
                               <<url, maxRetries>>)
    /\ UNCHANGED <<titles, opens, navRest>>

NavInit == NoCall /\ NoEvaluation /\ NoRemove /\ OpenURLCall

NavNext == OpenNavigate \/ OpenWait \/ OpenTitle \/ OpenRetry

NavSpec == NavInit /\ [][NavNext]_vars

\* ----------------------------------------------------------- properties
\* ParallelRequests has returned results, errorOnApiRequests.
Returned == mainPc = "returned"

\* The worker count starts at least one worker.
Pooled == numberOfWorkers >= 1

\* The identifiers of the input list, and those of a list of results.
Inputs == [i \in 1 .. N |-> requests[i].SearchString]
Echoes(rs) == [k \in 1 .. Len(rs) |-> rs[k].Request]

\* The number of crawlerFunc invocations made so far.
RECURSIVE SumTo(_, _)
SumTo(f, n) == IF n = 0 THEN 0 ELSE f[n] + SumTo(f, n - 1)
Invocations == SumTo(calls, N)

\* A sequence as a multiset.
SeqToBag(s) == [x \in Range(s) |-> Cardinality({i \in DOMAIN s : s[i] = x})]

\* The position (in the input list) of the crawl call a result was built from.
CallOf(r) == IF r.Error # Nil THEN r.Error ELSE r.Page

\* The indexes of the failed results of rs, and the Error of its last and of
\* its first failed result (nil when there is none).
Failed(rs) == {k \in 1 .. Len(rs) : rs[k].Error # Nil}
LastOf(S) == CHOOSE k \in S : \A j \in S : j <= k
FirstOf(S) == CHOOSE k \in S : \A j \in S : k <= j
LastError(rs) == IF Failed(rs) = {} THEN Nil ELSE rs[LastOf(Failed(rs))].Error
FirstError(rs) == IF Failed(rs) = {} THEN Nil ELSE rs[FirstOf(Failed(rs))].Error

\* C1: with at least one worker, the call returns exactly as many results as
\* there are requests, whatever the worker count, the delay and the set of
\* failing crawl calls.
C1_Cardinality == (Returned /\ Pooled) => Len(results) = N

\* C1 witness: a returned call with fewer workers than requests in which one
\* crawl failed and one succeeded.
C1_Witness ==
    /\ Returned
    /\ numberOfWorkers = 1
    /\ N = 2
    /\ Cardinality(failing) = 1
    /\ Len(results) = 2

\* C2: with at least one worker, the multiset of Request identifiers of the
\* returned results is the multiset of SearchString values of the input.
C2_RequestMultiset ==
    (Returned /\ Pooled) => SeqToBag(Echoes(results)) = SeqToBag(Inputs)

\* C2 witness: a returned call whose input holds the same identifier twice,
\* processed by two workers.
C2_Witness ==
    /\ Returned
    /\ numberOfWorkers = 2
    /\ N = 2
    /\ requests[1] = requests[2]
    /\ Echoes(results) = Inputs

\* C3: the crawl function is invoked at most once per position of the list,
\* a position is held by at most one worker, the positions handed out are
\* exactly those before the feeder's index, each handed out once; when a call
\* with at least one worker returns, every position was crawled exactly once.
C3_CrawledOnce ==
    /\ \A i \in 1 .. N :
          LET holders == {w \in WorkerIDs : worker[w].pos = i}
              waiting == {w \in holders : worker[w].pc = "sleep"}
          IN /\ calls[i] <= 1
             /\ Cardinality(holders) <= 1
             /\ calls[i] + Cardinality(waiting) = (IF i < feederIdx THEN 1 ELSE 0)
    /\ (Returned /\ Pooled) => \A i \in 1 .. N : calls[i] = 1

\* C3 witness: a returned call in which two workers each crawled one of two
\* requests.
C3_Witness ==
    /\ Returned
    /\ numberOfWorkers = 2
    /\ N = 2
    /\ calls = [i \in 1 .. 2 |-> 1]

\* C4: a worker whose crawl call failed holds that error for its own result,
\* and when a call with at least one worker returns, every position of the
\* list has exactly one result, which echoes that position's identifier and
\* whose Error is non-nil exactly when that position's crawl failed.
C4_ErrorIsolation ==
    /\ \A w \in WorkerIDs :
          worker[w].pc = "send" =>
             (worker[w].err # Nil <=> worker[w].pos \in failing)
    /\ (Returned /\ Pooled) =>
          \A i \in 1 .. N :
             \E k \in 1 .. Len(results) :
                /\ CallOf(results[k]) = i
                /\ results[k].Request = requests[i].SearchString
                /\ (results[k].Error # Nil <=> i \in failing)
                /\ \A j \in 1 .. Len(results) : CallOf(results[j]) = i => j = k

\* C4 witness: one worker, the first crawl failed and the second, made by
\* the same worker afterwards, succeeded; both results were returned.
C4_Witness ==
    /\ Returned
    /\ numberOfWorkers = 1
    /\ N = 2
    /\ failing = {1}
    /\ Len(results) = 2
    /\ results[1].Error # Nil
    /\ results[2].Error = Nil

\* C5: the collector's error is at every moment the Error of the last failed
\* result collected so far (nil when none failed), so the returned error is
\* nil exactly when every returned result has a nil Error and is otherwise
\* the last non-nil Error of the returned collection; the collection
\* returned holds every result sent, with or without errors.
C5_LastErrorWins ==
    /\ errorOnApiRequests = LastError(results)
    /\ errorOnApiRequests = Nil <=> \A k \in 1 .. Len(results) : results[k].Error = Nil
    /\ Returned => Len(results) = Invocations

\* C5 witness: a returned call with two failed results, whose error is that
\* of the second result and not that of the first.
C5_Witness ==
    /\ Returned
    /\ Len(results) = 2
    /\ results[1].Error # Nil
    /\ results[2].Error # Nil
    /\ errorOnApiRequests = results[2].Error
    /\ errorOnApiRequests # results[1].Error

\* C6 (as claimed): when several crawl calls fail, the returned error is
\* the Error of the earliest failed result of the returned collection.
C6_FirstErrorReturned ==
    (Returned /\ Cardinality(Failed(results)) >= 2) =>
        errorOnApiRequests = FirstError(results)

\* C6 (amended): when several crawl calls of a call with at least one worker
\* fail, the returned error is the Error of the latest failed result of the
\* returned collection, and the collection was not cut short: it holds a
\* result for every request, the failed ones and those collected after them
\* included.
C6_LatestErrorReturned ==
    (Returned /\ Pooled /\ Cardinality(failing) >= 2) =>
        LET bad == Failed(results) IN
        /\ Cardinality(bad) = Cardinality(failing)
        /\ errorOnApiRequests = results[LastOf(bad)].Error
        /\ Len(results) = N
        /\ resultCh = <<>>

\* C6 witness: two workers, both crawls failed, and the results came back in
\* the order opposite to the input: the returned error is that of request 1,
\* collected last.
C6_Witness ==
    /\ Returned
    /\ numberOfWorkers = 2
    /\ failing = {1, 2}
    /\ Len(results) = 2
    /\ CallOf(results[1]) = 2
    /\ CallOf(results[2]) = 1
    /\ errorOnApiRequests = results[2].Error

\* C7: on an empty request list, for every worker count and delay, no
\* worker ever receives a request, sleeps or calls the crawl function, and
\* the call returns an empty collection and a nil error, with every worker
\* it started exited.
C7_EmptyInput ==
    N = 0 =>
        /\ \A w \in WorkerIDs : worker[w].pc \in {"unborn", "recv", "exited"}
        /\ sleeps = 0
        /\ Returned =>
              /\ results = <<>>
              /\ errorOnApiRequests = Nil
              /\ \A w \in WorkerIDs :
                    worker[w].pc = (IF w < numberOfWorkers THEN "exited" ELSE "unborn")

\* C7 witness: a returned call on an empty list with two workers and a
\* non-zero delay.
C7_Witness ==
    /\ Returned
    /\ N = 0
    /\ numberOfWorkers = 2
    /\ delay > 0
    /\ \A w \in 0 .. 1 : worker[w].pc = "exited"

\* The crawl function is deterministic: calls with the same identifier agree
\* on failing or succeeding.
Deterministic ==
    \A i, j \in 1 .. N :
        requests[i].SearchString = requests[j].SearchString =>
            (i \in failing <=> j \in failing)

\* The (identifier, failed) entries of a list of results, and those fixed by
\* the request list and the crawl function alone.
Entries(rs) == {<<rs[k].Request, rs[k].Error # Nil>> : k \in 1 .. Len(rs)}
ExpectedEntries == {<<requests[i].SearchString, i \in failing>> : i \in 1 .. N}

\* C8: for a deterministic crawl function and at least one worker, the size
\* of the returned collection and its set of (identifier, error/success)
\* entries are those fixed by the request list and the crawl function; the
\* worker count does not enter, so any two worker counts give the same size
\* and the same set of entries.
C8_WorkerCountInvariance ==
    (Returned /\ Pooled /\ Deterministic) =>
        /\ Len(results) = N
        /\ Entries(results) = ExpectedEntries

\* C8 witness: a returned call of a deterministic crawl function over two
\* different identifiers, one of them failing, run with two workers, whose
\* results are not in input order.
C8_Witness ==
    /\ Returned
    /\ Deterministic
    /\ numberOfWorkers = 2
    /\ N = 2
    /\ requests[1] # requests[2]
    /\ failing = {2}
    /\ results[1].Request = requests[2].SearchString

\* C9: with at least one worker (every crawl call returning, every runnable
\* goroutine scheduled), the call eventually returns.
C9_Returns == Pooled ~> Returned

\* C9 witness: every worker has sent its results and exited before the
\* collector has taken anything from resultCh.
C9_Witness ==
    /\ mainPc = "collect"
    /\ N = 2
    /\ results = <<>>
    /\ Len(resultCh) = N
    /\ \A w \in 0 .. (numberOfWorkers - 1) : worker[w].pc = "exited"
    /\ Pooled

\* C10: with one worker, the crawl for position i starts only when i delays
\* have passed one after the other, and when the call returns the worker has
\* completed one delay per request and at least N * delay has elapsed.
C10_DelayPerRequest ==
    numberOfWorkers = 1 =>
        /\ \A w \in WorkerIDs :
              worker[w].pc \in {"crawl", "send"} => now >= worker[w].pos * delay
        /\ Cardinality({w \in WorkerIDs : worker[w].pc = "sleep"}) <= 1
        /\ Returned => (sleeps = N /\ now >= N * delay)

\* C10 witness: one worker, three requests and a non-zero delay: the call
\* has returned after three delays.
C10_Witness ==
    /\ Returned
    /\ numberOfWorkers = 1
    /\ N = 3
    /\ delay = 1
    /\ sleeps = 3
    /\ now = 3

\* EvaluateParallelRequests has returned.
EvalReturned == evalPc = "returned"

\* After its return EvaluateParallelRequests calls nothing.
EvalAtRest == ~ENABLED EvalNext

\* The Request identifiers of a result collection, in order.
Ids(s) == [k \in 1 .. Len(s) |-> s[k].Request]

\* The identifiers of a list of requests, in order.
ReqIds(s) == [k \in 1 .. Len(s) |-> s[k].SearchString]

\* The verdicts of the last evaluate call put no request in needsRecrawl.
NoneToRecrawl == \A k \in DOMAIN marks : marks[k] \in {"valid", "drop"}

\* C11: when an evaluate call returns an empty needsRecrawl list the
\* function returns the valid list of that call with a nil error and calls
\* nothing afterwards (a re-crawl pass is only started for a non-empty
\* list); when the first evaluate call finds every initial result valid,
\* the initial results are returned after one evaluate call and no crawl.
C11_ReturnsValidList ==
    /\ evalPc = "dispatch" => requests # <<>> /\ ~NoneToRecrawl
    /\ (evalPc \in {"dispatch", "returned"} /\ NoneToRecrawl) =>
          /\ EvalReturned
          /\ retErr = NilError
    /\ (EvalReturned /\ retErr = NilError) =>
          /\ NoneToRecrawl
          /\ retResults = Valid(previousResults, marks)
          /\ retResults = newResults
          /\ EvalAtRest
    /\ (evalPc # "evaluate" /\ evals = 1
            /\ \A k \in DOMAIN marks : marks[k] = "valid") =>
          /\ EvalReturned
          /\ retResults = initial
          /\ retErr = NilError
          /\ dispatches = 0
          /\ calls = <<>>

\* C11 witness: the function has returned, without error, after two
\* re-crawl passes; the last evaluate call accepted one result of a working
\* set of two and put nothing in needsRecrawl.
C11_Witness ==
    /\ EvalReturned
    /\ retErr = NilError
    /\ dispatches = 2
    /\ Len(previousResults) = 2
    /\ Len(retResults) = 1

\* The re-crawl pass started last is over.
PassOver ==
    \/ evalPc = "evaluate" /\ dispatches >= 1
    \/ EvalReturned /\ retErr # NilError

\* C12: the requests of a re-crawl pass are exactly those the evaluate call
\* of the iteration put in needsRecrawl, in that order; the crawl function is
\* invoked at most once for each during the pass and exactly once by its
\* end; the results judged valid are not crawled and open the next working
\* set unchanged.
C12_CrawlsOnlyRejected ==
    /\ evalPc = "dispatch" =>
          /\ requests = NeedsRecrawl(previousResults, marks)
          /\ newResults = Valid(previousResults, marks)
          /\ N = Cardinality({k \in DOMAIN marks : marks[k] \in {"recrawl", "both"}})
    /\ evalPc # "none" =>
          /\ DOMAIN calls = 1 .. N
          /\ \A i \in 1 .. N : calls[i] <= 1
          /\ Len(results) = Invocations
    /\ PassOver => \A i \in 1 .. N : calls[i] = 1
    /\ (evalPc = "evaluate" /\ dispatches >= 1) =>
          SubSeq(previousResults, 1, Len(newResults)) = newResults

\* C12 witness: a pass over one of two results is over: the result judged
\* invalid has been crawled once, the one judged valid is kept as it was.
C12_Witness ==
    /\ evalPc = "evaluate"
    /\ dispatches = 1
    /\ marks = <<"valid", "recrawl">>
    /\ calls = <<1>>
    /\ previousResults[1] = initial[1]
    /\ previousResults[2].Page # Old

\* C13: when the ParallelRequests call of a pass returns an error, the only
\* step left is the return of a nil collection and of that error wrapped with
\* "failed to crawl page sources"; no evaluate call follows such a pass and
\* nothing is called after the return.
C13_AbortsOnCrawlError ==
    /\ (PassReturned /\ errorOnApiRequests # Nil) =>
          /\ ~ENABLED Evaluate
          /\ ~ENABLED RecrawlSucceeded
          /\ ENABLED RecrawlFailed
    /\ (EvalReturned /\ retErr # NilError) =>
          /\ retResults = <<>>
          /\ errorOnApiRequests # Nil
          /\ retErr = [text |-> "failed to crawl page sources, error: ",
                       cause |-> errorOnApiRequests]
          /\ EvalAtRest
    /\ evalPc = "evaluate" => errorOnApiRequests = Nil
    /\ (EvalReturned /\ errorOnApiRequests # Nil) => retErr # NilError

\* C13 witness: the second pass failed for one of its two requests; the
\* function returned nil and the wrapped error although the failing pass
\* produced a successful result and the first pass had succeeded.
C13_Witness ==
    /\ EvalReturned
    /\ retErr # NilError
    /\ retResults = <<>>
    /\ dispatches = 2
    /\ Len(results) = 2
    /\ \E k \in 1 .. Len(results) : results[k].Error = Nil

\* The result was produced by a re-crawl pass, without error.
Fresh(r) == r.Page # Old /\ r.Page # Nil /\ r.Error = Nil

\* C14: with an evaluate function that rejects an identifier on its first
\* appearance only and a crawl function that never errors, the function
\* returns; it then returns as many results as it was given, for the same
\* identifiers, with a nil error, after two evaluate calls and one pass in
\* which every initial request was crawled exactly once.
C14_OnceConverges ==
    (evaluate = "once" /\ reliable) =>
        /\ <>EvalReturned
        /\ [](\A i \in DOMAIN calls : calls[i] <= 1)
        /\ [](EvalReturned =>
                /\ retErr = NilError
                /\ Len(retResults) = Len(initial)
                /\ SeqToBag(Ids(retResults)) = SeqToBag(Ids(initial))
                /\ initial # <<>> =>
                      /\ evals = 2
                      /\ dispatches = 1
                      /\ ReqIds(requests) = Ids(initial)
                      /\ \A i \in 1 .. N : calls[i] = 1
                      /\ \A k \in 1 .. Len(retResults) : Fresh(retResults[k]))

\* C14 witness: the call over MaxResults initial results has returned after
\* one pass that crawled each of them once.
C14_Witness ==
    /\ evaluate = "once"
    /\ reliable
    /\ EvalReturned
    /\ Len(initial) = MaxResults
    /\ Len(retResults) = MaxResults
    /\ Invocations = MaxResults

\* The "stuck" evaluate function rejects some initial result on every call.
Stuck == evaluate = "stuck" /\ \E k \in 1 .. Len(initial) : initial[k].Request = StuckId

\* A pass has just crawled the request that is rejected on every call.
StuckCrawled ==
    /\ evalPc = "dispatch"
    /\ \E i \in 1 .. N : requests[i].SearchString = StuckId /\ calls[i] = 1

C16_StopsWithoutProgress ==
    [][(evalPc = "evaluate" /\ dispatches >= 1 /\ evalPc' = "dispatch")
          => Range(requests') # Range(requests)]_vars

\* The working set of the current iteration, before and after its evaluate
\* call.
WorkingSetIds ==
    IF evalPc = "dispatch" THEN Ids(newResults) \o ReqIds(requests)
    ELSE Ids(previousResults)

\* C17: as long as every evaluate call was a partition of its input, each
\* iteration works on as many results as the initial collection, for the
\* same multiset of identifiers, and so does the collection returned
\* without error.
C17_PartitionKeepsSize ==
    partition =>
        /\ evalPc \in {"evaluate", "dispatch"} =>
              /\ Len(WorkingSetIds) = Len(initial)
              /\ SeqToBag(WorkingSetIds) = SeqToBag(Ids(initial))
        /\ (EvalReturned /\ retErr = NilError) =>
              /\ Len(retResults) = Len(initial)
              /\ SeqToBag(Ids(retResults)) = SeqToBag(Ids(initial))

\* C17 witness: after two passes under partitioning evaluate calls the
\* function returned two results for two distinct initial identifiers, one
\* of them never crawled again.
C17_Witness ==
    /\ partition
    /\ EvalReturned
    /\ retErr = NilError
    /\ dispatches = 2
    /\ Len(retResults) = 2
    /\ initial[1].Request # initial[2].Request
    /\ \E k \in 1 .. 2 : retResults[k].Page = Old

\* C18: the working set given to an evaluate call that follows a pass is
\* the valid list of the previous evaluate call followed by the results of
\* the pass, one per request; every evaluate call judges every result of
\* its working set.
C18_WholeSetReevaluated ==
    /\ (evalPc = "evaluate" /\ dispatches >= 1) =>
          /\ previousResults = newResults \o results
          /\ Len(results) = Len(requests)
          /\ SeqToBag(Ids(results)) = SeqToBag(ReqIds(requests))
    /\ evalPc \in {"dispatch", "returned"} /\ retErr = NilError =>
          DOMAIN marks = 1 .. Len(previousResults)

\* C18 witness: the second evaluate call rejects an initial result that the
\* first one had accepted, and accepts the fresh result that follows it.
C18_Witness ==
    /\ evalPc = "dispatch"
    /\ evals = 2
    /\ Len(previousResults) = 2
    /\ previousResults[1].Page = Old
    /\ Fresh(previousResults[2])
    /\ marks = <<"recrawl", "valid">>

\* The results sent to resultCh so far.
Sent == Len(resultCh) + Len(results)

C20_ClosedAfterWorkers ==
    /\ closes["resultCh"] = (IF resultChClosed THEN 1 ELSE 0)
    /\ resultChClosed =>
          /\ closerPc = "exited"
          /\ wg = 0
          /\ ~(spawned < numberOfWorkers)
          /\ \A w \in WorkerIDs :
                worker[w].pc = (IF w < numberOfWorkers THEN "exited" ELSE "unborn")
    /\ Returned =>
          /\ resultChClosed
          /\ resultCh = <<>>
          /\ Len(results) = Invocations

\* C20 witness: resultCh is closed after two workers exited, while two
\* results still wait in it for the collector.
C20_Witness ==
    /\ resultChClosed
    /\ numberOfWorkers = 2
    /\ Len(resultCh) = 2
    /\ mainPc = "collect"

\* The workers that hold a request received from inputCh whose result they
\* have not sent yet, and those inside crawlerFunc.
Busy == {w \in WorkerIDs : worker[w].pc \in {"sleep", "crawl", "send"}}
Crawling == {w \in WorkerIDs : worker[w].pc = "crawl"}

\* C21: the results sent so far are at most N, resultCh never holds more
\* than its capacity N, and a worker that has a result to send can send it
\* in its next step: the buffer has room and the channel is open.
C21_SendNeverBlocks ==
    /\ Sent <= N
    /\ Len(resultCh) <= N
    /\ Sent + Cardinality(Busy) <= N
    /\ \A w \in WorkerIDs :
          worker[w].pc = "send" =>
             /\ Len(resultCh) < N
             /\ ~resultChClosed
             /\ ENABLED WorkerSend(w)

\* C21 witness: the last of two results is about to be sent while the first
\* waits in resultCh and the collector has not started its loop.
C21_Witness ==
    /\ N = 2
    /\ Len(resultCh) = 1
    /\ mainPc = "spawn"
    /\ results = <<>>
    /\ \E w \in WorkerIDs : worker[w].pc = "send"

\* The smaller of two numbers.
Min(a, b) == IF a < b THEN a ELSE b

\* C22: with W >= 1 workers at most min(W, N) crawl calls are in progress,
\* at most W requests taken from inputCh await the sending of their result,
\* each of them held by a worker of its own, and no more than W workers are
\* ever started; with W <= 0 no request is ever taken.
C22_BoundedConcurrency ==
    /\ feederIdx - 1 - Sent = Cardinality(Busy)
    /\ \A v, w \in Busy : worker[v].pos = worker[w].pos => v = w
    /\ numberOfWorkers >= 1 =>
          /\ Cardinality(Crawling) <= Min(numberOfWorkers, N)
          /\ Cardinality(Busy) <= numberOfWorkers
          /\ spawned <= numberOfWorkers
          /\ \A w \in WorkerIDs :
                /\ w < numberOfWorkers
                /\ w >= spawned => worker[w].pc = "unborn"
    /\ numberOfWorkers <= 0 => (Busy = {} /\ feederIdx = 1 /\ spawned = 0)

\* C22 witness: two workers are inside crawlerFunc at the same time.
C22_Witness ==
    /\ numberOfWorkers = 2
    /\ N = 2
    /\ Cardinality(Crawling) = 2

\* C23: with W >= 1, done is closed exactly when the call has returned, and
\* once: by then the feeder has sent every request and exited without
\* taking its done branch, no worker holds a request, every position was
\* crawled once and its result is in the returned collection. Until then
\* every request handed out is with its worker or has its result sent, and
\* every crawl call started is in progress or has its result sent.
C23_DoneOnlyAtReturn ==
    Pooled =>
        /\ done <=> Returned
        /\ closes["done"] = (IF Returned THEN 1 ELSE 0)
        /\ feederPc = "exited" => feederIdx = N + 1
        /\ \A i \in 1 .. N :
              /\ i < feederIdx =>
                    \/ \E w \in Busy : worker[w].pos = i
                    \/ \E r \in Range(resultCh) \cup Range(results) : CallOf(r) = i
              /\ calls[i] = 1 =>
                    \/ \E w \in Busy : worker[w].pos = i /\ worker[w].pc # "sleep"
                    \/ \E r \in Range(resultCh) \cup Range(results) : CallOf(r) = i
        /\ done =>
              /\ feederPc = "exited"
              /\ Busy = {}
              /\ Len(results) = N
              /\ \A i \in 1 .. N :
                    /\ calls[i] = 1
                    /\ \E k \in 1 .. N : CallOf(results[k]) = i

\* C23 witness: a call with two workers has returned and closed done; both
\* crawls, one of them failed, are in the returned collection.
C23_Witness ==
    /\ numberOfWorkers = 2
    /\ N = 2
    /\ Returned
    /\ done
    /\ Cardinality(failing) = 1
    /\ Len(results) = 2

\* C24: when one crawl call never returns (and there is a worker), the call
\* never returns, resultCh is never closed and done is never closed; with
\* two workers or more the other N-1 results are eventually collected and
\* the collector then waits for ever.
C24_NoTimeout ==
    (Pooled /\ Cardinality(hanging) = 1) =>
        /\ [](~Returned /\ ~resultChClosed /\ ~done)
        /\ numberOfWorkers >= 2 =>
              <>[](Len(results) = N - 1 /\ mainPc = "collect" /\ resultCh = <<>>)

\* C24 witness: the result of the second request is collected, the crawl of
\* the first never returns and the collector waits on the open resultCh.
C24_Witness ==
    /\ numberOfWorkers = 2
    /\ N = 2
    /\ hanging = {1}
    /\ Len(results) = 1
    /\ mainPc = "collect"
    /\ resultCh = <<>>
    /\ \E w \in Crawling : worker[w].pos = 1

\* The result built from the crawl call made for position i.
ResultOf(i) ==
    LET r == crawlerFunc(i, requests[i].SearchString) IN
    PageSource(r.page, requests[i].SearchString, r.err)

\* C25: every result sent or collected is the result of one crawl call:
\* identifier, page and error all belong to the same position; a worker
\* holds the request of its own position and, after the call, the values
\* that call returned.
C25_ResultFromOneCall ==
    /\ \A r \in Range(resultCh) \cup Range(results) :
          /\ CallOf(r) \in 1 .. N
          /\ r = ResultOf(CallOf(r))
    /\ \A w \in Busy :
          /\ worker[w].req = requests[worker[w].pos]
          /\ worker[w].pc = "send" =>
                PageSource(worker[w].page, worker[w].req.SearchString,
                           worker[w].err) = ResultOf(worker[w].pos)

\* C25 witness: two workers crawled "a" and "b" side by side, one crawl
\* failed, and the results were collected in the reverse order.
C25_Witness ==
    /\ numberOfWorkers = 2
    /\ Inputs = <<"a", "b">>
    /\ failing = {2}
    /\ Echoes(results) = <<"b", "a">>
    /\ results[1].Error = 2
    /\ results[2].Page = 1

\* The results in the order in which they were sent.
SendOrder == results \o resultCh

\* s is an initial segment of t.
IsPrefix(s, t) == Len(s) <= Len(t) /\ SubSeq(t, 1, Len(s)) = s

\* C26: the collection grows in the order of the sends (a send adds to the
\* end of the send order and collecting leaves it as it is), and with one
\* worker the k-th result sent is that of the k-th request.
C26_SendOrder ==
    /\ [][IsPrefix(SendOrder, SendOrder')
            /\ Len(SendOrder') <= Len(SendOrder) + 1
            /\ IsPrefix(results, results')]_vars
    /\ [](numberOfWorkers = 1 =>
            \A k \in 1 .. Len(SendOrder) : CallOf(SendOrder[k]) = k)

\* C26 witness: with two workers the returned collection starts with the
\* result of the second request.
C26_Witness ==
    /\ numberOfWorkers = 2
    /\ Returned
    /\ Len(results) = 2
    /\ CallOf(results[1]) = 2
    /\ CallOf(results[2]) = 1

\* C30: a call with W <= 0 and N >= 1 never invokes crawlerFunc and never
\* hands out a request; it returns no result and a nil error, and the
\* feeder, which leaves its first send only through the done branch, does
\* so after the return and closes inputCh.
C30_NoWorkers ==
    (numberOfWorkers <= 0 /\ N >= 1) =>
        /\ [](Invocations = 0 /\ feederIdx = 1 /\ results = <<>>
                /\ errorOnApiRequests = Nil)
        /\ [](feederPc = "exited" => Returned /\ done)
        /\ <>Returned
        /\ <>[](feederPc = "exited" /\ inputChClosed)

\* C30 witness: a call with no worker and two requests has returned and
\* its feeder has then exited without having sent a request.
C30_Witness ==
    /\ numberOfWorkers <= 0
    /\ N = 2
    /\ Returned
    /\ results = <<>>
    /\ feederPc = "exited"
    /\ feederIdx = 1

\* C27: the ParallelRequests call of every pass has ten workers and no
\* delay, whatever the arguments of the caller's initial dispatch: exactly
\* ten worker goroutines exist, at most ten are started, at most ten (and
\* at most one per request) are inside crawlerFunc, none ever waits for the
\* clock and the feeder never takes its done branch.
C27_TenWorkersNoDelay ==
    /\ RecrawlWorkers = 10
    /\ RecrawlDelay = 0
    /\ dispatches >= 1 =>
          /\ numberOfWorkers = 10
          /\ delay = 0
          /\ WorkerIDs = 0 .. 9
          /\ spawned <= 10
          /\ wg <= 10
          /\ mainPc # "spawn" => spawned = 10
          /\ Cardinality(Crawling) <= Min(10, N)
          /\ Cardinality(Busy) <= 10
          /\ \A w \in WorkerIDs : worker[w].wake = 0
          /\ now = 0
          /\ ~ENABLED Tick
          /\ ~ENABLED FeederCancelled

\* C27 witness: in the second pass all ten workers have been started and
\* the tenth is inside crawlerFunc for the only request of the pass.
C27_Witness ==
    /\ evalPc = "dispatch"
    /\ dispatches = 2
    /\ N = 1
    /\ spawned = 10
    /\ worker[9].pc = "crawl"

\* C28: while the loop runs, and when it returns a nil error, no crawl call
\* of any pass has returned an error; a returned error wraps the error of a
\* crawl call of the last pass, never the error carried by an initial
\* result; once a crawl call has failed the function can only return that
\* error; the only results with an error that a working set or a valid list
\* ever holds are initial ones, so no request is re-crawled after a failed
\* re-crawl.
C28_ErrorOnlyFromRecrawl ==
    /\ (evalPc = "evaluate" \/ (EvalReturned /\ retErr = NilError)) =>
          /\ failing = {}
          /\ errorOnApiRequests = Nil
          /\ \A r \in Range(results) : r.Error = Nil
    /\ (EvalReturned /\ retErr # NilError) =>
          /\ dispatches >= 1
          /\ retErr.cause \in failing
          /\ retErr.cause # Old
    /\ failing # {} =>
          /\ errorOnApiRequests \in failing
          /\ ~ENABLED RecrawlSucceeded
          /\ ~ENABLED Evaluate
    /\ \A r \in Range(previousResults) \cup Range(newResults) :
          r.Error # Nil => r \in Range(initial)
    /\ \A r \in Range(initial) : r.Page = Old \/ r.Error = Old

\* C28 witness: both initial results carry an error; evaluate accepted the
\* first as it was and had the second re-crawled, and the function returned
\* both without error.
C28_Witness ==
    /\ Len(initial) = 2
    /\ \A k \in 1 .. 2 : initial[k].Error = Old
    /\ EvalReturned
    /\ retErr = NilError
    /\ dispatches = 1
    /\ Len(retResults) = 2
    /\ retResults[1].Error = Old
    /\ Fresh(retResults[2])

\* C29: evaluate is called first; each evaluate call is followed by at
\* most one ParallelRequests call and each such call by one evaluate call;
\* when evaluate is called after a pass, that call has returned: every
\* worker has exited, resultCh is closed and drained, every result is
\* collected and no crawl call is in progress; a return without error
\* follows one evaluate call more than there were passes.
C29_EvaluateBetweenPasses ==
    /\ evals = 0 => (evalPc = "evaluate" /\ dispatches = 0)
    /\ evalPc \in {"evaluate", "dispatch"} => evals = dispatches
    /\ (EvalReturned /\ retErr # NilError) => evals = dispatches
    /\ (EvalReturned /\ retErr = NilError) =>
          evals = (IF dispatches < MaxCount THEN dispatches + 1 ELSE MaxCount)
    /\ evalPc # "dispatch" =>
          /\ Busy = {}
          /\ resultCh = <<>>
          /\ dispatches >= 1 =>
                /\ Returned
                /\ resultChClosed
                /\ closerPc = "exited"
                /\ feederPc = "exited"
                /\ wg = 0
                /\ \A w \in WorkerIDs : worker[w].pc = "exited"
                /\ Len(results) = N
                /\ \A i \in 1 .. N : calls[i] = 1
    /\ ENABLED EvaluateCall => (Busy = {} /\ (dispatches >= 1 => Returned))

\* C29 witness: the second evaluate call found nothing to re-crawl after a
\* pass whose ten workers have all exited.
C29_Witness ==
    /\ EvalReturned
    /\ retErr = NilError
    /\ evals = 2
    /\ dispatches = 1
    /\ Cardinality(WorkerIDs) = 10
    /\ \A w \in WorkerIDs : worker[w].pc = "exited"

\* Every goroutine the call has started has terminated.
AllTerminated ==
    /\ feederPc = "exited"
    /\ closerPc = "exited"
    /\ \A w \in WorkerIDs : worker[w].pc = "exited"
    /\ Cardinality(WorkerIDs) = (IF Pooled THEN numberOfWorkers ELSE 0)

\* C31: no channel is ever closed twice; with W >= 1 a returned call has
\* left no goroutine behind (the feeder has closed inputCh and exited, the W
\* workers have exited, resultCh is closed by the closing goroutine); for
\* every W the call returns and from some point on every goroutine has
\* terminated and inputCh, resultCh and done have each been closed once.
C31_NoGoroutineLeft ==
    /\ [](\A c \in Channels : closes[c] <= 1)
    /\ []((Returned /\ Pooled) =>
            (AllTerminated /\ inputChClosed /\ resultChClosed /\ wg = 0))
    /\ <>[](Returned /\ AllTerminated /\ \A c \in Channels : closes[c] = 1)

\* C31 witness: a call with two workers and two requests has returned: the
\* feeder, both workers and the closing goroutine have exited and each
\* channel has been closed once.
C31_Witness ==
    /\ numberOfWorkers = 2
    /\ N = 2
    /\ Returned
    /\ AllTerminated
    /\ \A c \in Channels : closes[c] = 1

\* The sequence q without its element at (zero-based) index i.
Without(q, i) == [k \in 1 .. (Len(q) - 1) |-> IF k <= i THEN q[k] ELSE q[k + 1]]

\* The sequence q with its elements from (zero-based) index i on moved one
\* place to the left, the last one staying where it was.
ShiftedLeft(q, i) ==
    [k \in 1 .. Len(q) |-> IF k <= i \/ k = Len(q) THEN q[k] ELSE q[k + 1]]

InRange == 0 <= index /\ index < Len(original)

\* C32: a call of RemovePageSource or RemoveRequest with 0 <= s < L returns
\* (it does not panic), and the slice it returns has length L - 1 and holds
\* the elements of the argument without the one at index s, in their order.
C32_RemovesElement ==
    /\ (removePc = "panicked" => ~InRange)
    /\ (removePc = "returned" =>
          /\ InRange
          /\ removed.len = Len(original) - 1
          /\ Elements(heap, removed) = Without(original, index))

\* C32 witness: RemoveRequest has removed the middle element of a slice of
\* three requests whose first and last differ.
C32_Witness ==
    /\ callee = "RemoveRequest"
    /\ removePc = "returned"
    /\ Len(original) = 3
    /\ index = 1
    /\ original[1] # original[3]
    /\ Elements(heap, removed) = <<original[1], original[3]>>

\* C33 as stated: after a call with s < L - 1 the caller's slice differs
\* from what it held, and it is unchanged only for s = L - 1.
C33_OriginalChanged ==
    removePc = "returned" =>
       /\ (index < Len(original) - 1 => Elements(heap, slice) # original)
       /\ (Elements(heap, slice) = original => index = Len(original) - 1)

\* C33, amended: the functions work on the storage of their argument (no
\* array is allocated, the returned slice starts where the argument starts);
\* after a call the caller's slice, still of length L, holds its elements
\* from index s on moved one place to the left and its last element in the
\* last two places (for s < L - 1); it holds its former contents exactly when
\* the elements from index s on were all equal, which for s = L - 1 is
\* always so.
C33_InPlace ==
    removePc = "returned" =>
       /\ Len(heap) = 1
       /\ removed.array = slice.array
       /\ removed.ptr = slice.ptr
       /\ Len(Elements(heap, slice)) = Len(original)
       /\ Elements(heap, slice) = ShiftedLeft(original, index)
       /\ (index < Len(original) - 1 =>
             Elements(heap, slice)[Len(original) - 1] = original[Len(original)]
             /\ Elements(heap, slice)[Len(original)] = original[Len(original)])
       /\ (Elements(heap, slice) = original <=>
             \A k \in (index + 1) .. (Len(original) - 1) : original[k] = original[k + 1])
       /\ (index = Len(original) - 1 => Elements(heap, slice) = original)

\* C33 witness: RemovePageSource has removed the first of three page
\* sources, and the caller's slice now holds the second, the third and the
\* third again, which is not what it held.
C33_Witness ==
    /\ callee = "RemovePageSource"
    /\ removePc = "returned"
    /\ Len(original) = 3
    /\ index = 0
    /\ Elements(heap, slice) = <<original[2], original[3], original[3]>>
    /\ Elements(heap, slice) # original

\* The titles read so far all show the error.
OnlyErrorTitles == \A j \in 1 .. Len(titles) : CheckPageTitle(titles[j])

OpenReturned == navPc = "returned"

GaveUp == Wrap("failed to open URL %s after %d attempts", <<url, maxRetries>>)

\* The errors OpenURL returns on a failed navigation, a failed page-load
\* wait and a failed title check.
StepErrors ==
    {Wrap("error - failed to open URL: ", RunError),
     Wrap("error checking page title: ",
          Wrap("failed to navigate or get title: ", RunError))} \cup WaitErrors

====
